---- MODULE Spec2Model ----
(***************************************************************************)
(* twisted.mail.protocols: the domain-scoped delivery decisions of an SMTP *)
(* delivery object (DomainDeliveryBase) and the login routing of a virtual *)
(* hosting POP3 server (VirtualPOP3), over one shared mail service.        *)
(*                                                                         *)
(* Byte strings are sequences of one-character strings.  An optional value *)
(* (None or a value) is the empty set or a singleton.                      *)
(***************************************************************************)
EXTENDS Naturals, Sequences, FiniteSets, TLC

\* ------------------------------------------------------------- bounds
\* longest login identifier a POP3 client sends
MaxIdLen == 2
\* longest authenticated SMTP user name
MaxUserLen == 1
\* most recipients handed to receivedHeader
MaxRecipients == 1
\* connections alive at once: odd ones are SMTP, even ones are POP3
NumConns == 2

\* ------------------------------------------------------------- values
None == {}

Some(x) == {x}

The(o) == CHOOSE x \in o : TRUE

\* every byte string over alphabet A of at most n bytes
Strs(A, n) == UNION {[1..k -> A] : k \in 0..n}

\* VirtualPOP3.domainSpecifier
domainSpecifier == "@"

\* bytes of login identifiers, of authenticated user names, of host names
IdChars == {"a", domainSpecifier}

UserChars == {"+"}

LoginIds == Strs(IdChars, MaxIdLen)

\* the domain names a service may serve: the empty-string domain, an
\* ordinary one, and one that holds the separator itself
DomainNames == {<<>>, <<"a">>, <<domainSpecifier>>}

UserNames == Strs(UserChars, MaxUserLen)

SmtpConns == {c \in 1..NumConns : c % 4 \in {1, 3}}

PopConns == {c \in 1..NumConns : c % 4 \in {0, 2}}

\* an envelope address: smtp.Address with its local and domain attributes
Addresses == [local : {<<>>, <<"a">>}, domain : DomainNames]

\* the addresses a client names as sender, and those a message is for
Origins == {a \in Addresses : a.domain # <<domainSpecifier>>}

Recipients == {a \in Addresses : a.local = <<"a">> /\ a.domain # <<domainSpecifier>>}

\* helo is None before HELO, else the 2-tuple (claimed name, peer address)
HeloIdentities == {<<n, <<"1">> >> : n \in {<<>>, <<"h">>}}

Helos == {None} \cup {Some(h) : h \in HeloIdentities}

\* ----------------------------------------------------- python semantics
\* truth value of an optional byte string: None and b'' are false
Truthy(o) == o # None /\ The(o) # <<>>

\* truth value of an optional tuple: None and () are false
TruthyTuple(o) == o # None /\ Len(The(o)) > 0

\* results of a call: an exception raised out of it, or a returned value
Raise(e) == [how |-> "raise", val |-> e]

Return(v) == [how |-> "return", val |-> v]

\* Deferred values: already fired with a result, already failed with an
\* error, or still waiting for the collaborator that owns them
succeed(v) == [how |-> "deferred", state |-> "ok", val |-> v]

fail(e) == [how |-> "deferred", state |-> "fail", val |-> e]

waiting(owner) == [how |-> "deferred", state |-> "pending", val |-> [type |-> owner]]

\* ------------------------------------------------------- the mail service
\* a domain handler registered under a name, and the portal bound to it
Domain(name) == [kind |-> "IDomain", name |-> name]

Portal(name) == [kind |-> "Portal", name |-> name]

\* relay.DomainQueuer(service, authenticated)
DomainQueuer(service, authenticated) ==
    [kind |-> "DomainQueuer", service |-> service, authed |-> authenticated]

\* the registries a MailService can hold: every served domain has a handler,
\* a served domain may have a portal, the relay queue is set or None
Services ==
    UNION {UNION {{[domains |-> [d \in served |-> Domain(d)],
                    portals |-> [d \in bound |-> Portal(d)],
                    queue |-> q] : q \in {None, Some("Queue")}}
                  : bound \in SUBSET served}
           : served \in SUBSET DomainNames}

\* service.domains.get(name, None)
domains_get(service, name) ==
    IF name \in DOMAIN service.domains THEN Some(service.domains[name]) ELSE None

\* service.domains[name]
domains_getitem(service, name) ==
    IF name \in DOMAIN service.domains
    THEN Return(service.domains[name])
    ELSE Raise([type |-> "KeyError", detail |-> name])

\* name in service.domains
domains_contains(service, name) == name \in DOMAIN service.domains

\* MailService.lookupPortal(name)
lookupPortal(service, name) ==
    IF name \in DOMAIN service.portals
    THEN Return(service.portals[name])
    ELSE Raise([type |-> "KeyError", detail |-> name])

\* ------------------------------------------------------- collaborators
\* what a handler's exists(user) may do: return the message factory, raise,
\* or return a Deferred that has fired, has failed or is still waiting
MessageFactory == [type |-> "factory"]

ExistsErrors == {[type |-> "SMTPBadRcpt"], [type |-> "RuntimeError"]}

ExistsOutcomes ==
    {succeed(MessageFactory)} \cup {fail(e) : e \in ExistsErrors}

ExistsBehaviours ==
    {Return(MessageFactory)} \cup {Raise(e) : e \in ExistsErrors}
    \cup ExistsOutcomes \cup {waiting("exists")}

\* what a portal's login(credentials, mind, interface) may produce: always a
\* Deferred, fired with (interface, avatar, logout), failed, or waiting
Mailbox == [type |-> "mailbox"]

LoginErrors == {[type |-> "UnauthorizedLogin"], [type |-> "LoginDenied"]}

LoginOutcomes == {succeed(Mailbox)} \cup {fail(e) : e \in LoginErrors}

LoginBehaviours == LoginOutcomes \cup {waiting("login")}

\* defer.maybeDeferred(f, *args), given what f(*args) did
maybeDeferred(r) ==
    CASE r.how = "raise" -> fail(r.val)
      [] r.how = "return" -> succeed(r.val)
      [] OTHER -> r

\* the result a caller holding Deferred d observes once its owner has produced r
fire(d, r) == IF d.state = "pending" THEN r ELSE d

\* ------------------------------------------------- DomainDeliveryBase
\* smtp.DNSNAME, copyright.longversion and smtp.rfc822date() as opaque text
DNSNAME == <<"l">>

longversion == <<"<longversion>">>

rfc822date == <<"<rfc822date>">>

\* s.encode('xtext'): '+' and '=' become +HH, printable bytes stay
xtext_char(ch) ==
    CASE ch = "+" -> <<"+", "2", "B">>
      [] ch = "=" -> <<"+", "3", "D">>
      [] OTHER -> <<ch>>

RECURSIVE xtext_encode(_)
xtext_encode(s) ==
    IF s = <<>> THEN <<>> ELSE xtext_char(Head(s)) \o xtext_encode(Tail(s))

\* bytes(recipient): the address as local@domain, or the bare local part
AddressBytes(a) ==
    IF a.domain = <<>> THEN a.local ELSE a.local \o <<"@">> \o a.domain

\* b' '.join(map(bytes, recipients))
RECURSIVE join_recipients(_)
join_recipients(recipients) ==
    IF recipients = <<>> THEN <<>>
    ELSE IF Len(recipients) = 1 THEN AddressBytes(recipients[1])
    ELSE AddressBytes(recipients[1]) \o <<" ">> \o join_recipients(Tail(recipients))

\* receivedHeader testing the user against None instead of for truth
receivedHeader_isNotNone(self, helo, origin, recipients) ==
    LET authStr == IF self.user # None
                   THEN <<" auth=">> \o xtext_encode(The(self.user))
                   ELSE <<>>
        heloStr == IF helo[1] # <<>> THEN <<" helo=">> \o helo[1] ELSE <<>>
        from_ == <<"from ">> \o helo[1] \o <<" ([">> \o helo[2] \o <<"]">>
                 \o heloStr \o authStr
        by == <<"by ">> \o self.host \o <<" with ">> \o self.protocolName
              \o <<" (">> \o longversion \o <<")">>
        for_ == <<"for <">> \o join_recipients(recipients) \o <<"> ">>
                \o rfc822date
    IN  Return(<<"Received: ">> \o from_ \o <<"\n\t">> \o by \o <<"\n\t">> \o for_)

\* DomainDeliveryBase.receivedHeader(helo, origin, recipients); literal text is
\* one element, every byte of an argument is one element
receivedHeader(self, helo, origin, recipients) ==
    LET authStr == IF Truthy(self.user)
                   THEN <<" auth=">> \o xtext_encode(The(self.user))
                   ELSE <<>>
        heloStr == IF helo[1] # <<>> THEN <<" helo=">> \o helo[1] ELSE <<>>
        from_ == <<"from ">> \o helo[1] \o <<" ([">> \o helo[2] \o <<"]">>
                 \o heloStr \o authStr
        by == <<"by ">> \o self.host \o <<" with ">> \o self.protocolName
              \o <<" (">> \o longversion \o <<")">>
        for_ == <<"for <">> \o join_recipients(recipients) \o <<"> ">>
                \o rfc822date
    IN  Return(<<"Received: ">> \o from_ \o <<"\n\t">> \o by \o <<"\n\t">> \o for_)

\* smtp.SMTPBadSender(addr, code, resp)
SMTPBadSender(addr, code, resp) ==
    [type |-> "SMTPBadSender", addr |-> addr, code |-> code, resp |-> resp]

\* validateFrom with its two checks in the other order
validateFrom_domainFirst(self, helo, origin) ==
    IF origin.local # <<>> /\ origin.domain = <<>>
    THEN Raise(SMTPBadSender(origin, 501, "Sender address must contain domain."))
    ELSE IF ~TruthyTuple(helo)
    THEN Raise(SMTPBadSender(origin, 503, "Who are you?  Say HELO first."))
    ELSE Return(origin)

\* DomainDeliveryBase.validateFrom(helo, origin)
validateFrom(self, helo, origin) ==
    IF ~TruthyTuple(helo)
    THEN Raise(SMTPBadSender(origin, 503, "Who are you?  Say HELO first."))
    ELSE IF origin.local # <<>> /\ origin.domain = <<>>
    THEN Raise(SMTPBadSender(origin, 501, "Sender address must contain domain."))
    ELSE Return(origin)

\* selectHandler with the queuing fallback gated on the queue alone
selectHandler_ignoresUser(self, user) ==
    IF self.service.queue # None
    THEN LET d == domains_get(self.service, user.dest.domain)
         IN  IF d = None
             THEN [queuers |-> <<DomainQueuer(self.service, TRUE)>>,
                   d |-> Return(DomainQueuer(self.service, TRUE))]
             ELSE [queuers |-> <<>>, d |-> Return(The(d))]
    ELSE [queuers |-> <<>>, d |-> domains_getitem(self.service, user.dest.domain)]

\* selectHandler with the queuing fallback left out
selectHandler_noFallback(self, user) ==
    [queuers |-> <<>>, d |-> domains_getitem(self.service, user.dest.domain)]

\* selectHandler handing every authenticated sender to a queuer
selectHandler_alwaysQueues(self, user) ==
    IF Truthy(self.user) /\ self.service.queue # None
    THEN [queuers |-> <<DomainQueuer(self.service, TRUE)>>,
          d |-> Return(DomainQueuer(self.service, TRUE))]
    ELSE [queuers |-> <<>>, d |-> domains_getitem(self.service, user.dest.domain)]

\* the handler DomainDeliveryBase.validateTo binds to d, with the queuers it
\* constructed on the way: a raise of the lookup, or the handler
selectHandler(self, user) ==
    IF Truthy(self.user) /\ self.service.queue # None
    THEN LET d == domains_get(self.service, user.dest.domain)
         IN  IF d = None
             THEN [queuers |-> <<DomainQueuer(self.service, TRUE)>>,
                   d |-> Return(DomainQueuer(self.service, TRUE))]
             ELSE [queuers |-> <<>>, d |-> Return(The(d))]
    ELSE [queuers |-> <<>>, d |-> domains_getitem(self.service, user.dest.domain)]

\* validateTo returning d.exists(user) as it is, without maybeDeferred
validateTo_direct(self, user, exists) ==
    LET sel == selectHandler(self, user)
    IN  IF sel.d.how = "raise"
        THEN [queuers |-> sel.queuers, existsCalls |-> <<>>, result |-> sel.d]
        ELSE [queuers |-> sel.queuers,
              existsCalls |-> <<[handler |-> sel.d.val, user |-> user]>>,
              result |-> exists]

\* DomainDeliveryBase.validateTo(user), where exists is what d.exists(user)
\* does when it is called: the queuers constructed, the calls made to exists,
\* and what the call returns or raises
validateTo(self, user, exists) ==
    LET sel == selectHandler(self, user)
    IN  IF sel.d.how = "raise"
        THEN [queuers |-> sel.queuers, existsCalls |-> <<>>, result |-> sel.d]
        ELSE [queuers |-> sel.queuers,
              existsCalls |-> <<[handler |-> sel.d.val, user |-> user]>>,
              result |-> maybeDeferred(exists)]

\* --------------------------------------------------------- VirtualPOP3
\* index of the first occurrence of byte sep in s, 0 when there is none
find(s, sep) ==
    IF \E i \in 1..Len(s) : s[i] = sep
    THEN CHOOSE i \in 1..Len(s) :
            s[i] = sep /\ \A j \in 1..(i - 1) : s[j] # sep
    ELSE 0

\* s.rsplit(sep, 1): the split at the last occurrence
rsplit1(s, sep) ==
    IF \E i \in 1..Len(s) : s[i] = sep
    THEN LET i == CHOOSE i \in 1..Len(s) :
                     s[i] = sep /\ \A j \in (i + 1)..Len(s) : s[j] # sep
         IN  <<SubSeq(s, 1, i - 1), SubSeq(s, i + 1, Len(s))>>
    ELSE <<s>>

\* s.split(sep, 1): the list of one or two parts
split1(s, sep) ==
    LET i == find(s, sep)
    IN  IF i = 0 THEN <<s>>
        ELSE <<SubSeq(s, 1, i - 1), SubSeq(s, i + 1, Len(s))>>

\* VirtualPOP3.lookupDomain(user)
lookupDomain(self, user) ==
    LET parts == split1(user, self.domainSpecifier)
        local == IF Len(parts) = 2 THEN parts[1] ELSE user
        domain == IF Len(parts) = 2 THEN parts[2] ELSE <<>>
    IN  IF ~domains_contains(self.service, domain)
        THEN Raise([type |-> "POP3Error",
                    detail |-> <<"no such domain ">> \o domain])
        ELSE Return([user |-> local, domain |-> domain])

\* the credentials the two login operations build
APOPCredentials(magic, username, digest) ==
    [type |-> "APOPCredentials", magic |-> magic, username |-> username,
     digest |-> digest]

UsernamePassword(username, password) ==
    [type |-> "UsernamePassword", username |-> username, password |-> password]

UnauthorizedLogin == [type |-> "UnauthorizedLogin"]

\* VirtualPOP3.authenticateUserAPOP(user, digest), where login is what
\* portal.login does when it is called: what lookupDomain found, the calls
\* made to login, and what the operation returns or raises
authenticateUserAPOP(self, user, digest, login) ==
    LET found == lookupDomain(self, user)
    IN  IF found.how = "raise"
        THEN [found |-> found, loginCalls |-> <<>>, result |-> found]
        ELSE LET portal == lookupPortal(self.service, found.val.domain)
             IN  IF portal.how = "raise"
                 THEN [found |-> found, loginCalls |-> <<>>,
                       result |-> fail(UnauthorizedLogin)]
                 ELSE [found |-> found,
                       loginCalls |->
                          <<[portal |-> portal.val,
                             credentials |-> APOPCredentials(
                                 self.magic, found.val.user, digest),
                             mind |-> None,
                             interface |-> "pop3.IMailbox"]>>,
                       result |-> login]

\* authenticateUserPASS handing the portal the whole identifier
authenticateUserPASS_fullId(self, user, password, login) ==
    LET found == lookupDomain(self, user)
    IN  IF found.how = "raise"
        THEN [found |-> found, loginCalls |-> <<>>, result |-> found]
        ELSE LET portal == lookupPortal(self.service, found.val.domain)
             IN  IF portal.how = "raise"
                 THEN [found |-> found, loginCalls |-> <<>>,
                       result |-> fail(UnauthorizedLogin)]
                 ELSE [found |-> found,
                       loginCalls |->
                          <<[portal |-> portal.val,
                             credentials |-> UsernamePassword(user, password),
                             mind |-> None,
                             interface |-> "pop3.IMailbox"]>>,
                       result |-> login]

\* VirtualPOP3.authenticateUserPASS(user, password), likewise
authenticateUserPASS(self, user, password, login) ==
    LET found == lookupDomain(self, user)
    IN  IF found.how = "raise"
        THEN [found |-> found, loginCalls |-> <<>>, result |-> found]
        ELSE LET portal == lookupPortal(self.service, found.val.domain)
             IN  IF portal.how = "raise"
                 THEN [found |-> found, loginCalls |-> <<>>,
                       result |-> fail(UnauthorizedLogin)]
                 ELSE [found |-> found,
                       loginCalls |->
                          <<[portal |-> portal.val,
                             credentials |-> UsernamePassword(
                                 found.val.user, password),
                             mind |-> None,
                             interface |-> "pop3.IMailbox"]>>,
                       result |-> login]

\* ---------------------------------------------------------------- state
VARIABLES
    service,    \* the MailService every connection shares
    delivery,   \* per SMTP connection: its delivery object's user, host, protocolName
    pop,        \* per POP3 connection: its protocol object's magic, domainSpecifier
    awaiting,   \* per connection: the collaborator whose Deferred it waits on
    last        \* the operation or callback that ran last, with what it did

vars == <<service, delivery, pop, awaiting, last>>

Conns == SmtpConns \cup PopConns

Magic == <<"m">>

Secrets == {<<"s">>}

\* smtp.User: the destination address of a RCPT
Users == [dest : {a \in Addresses : a.local = <<"a">>}]

RecipientLists == UNION {[1..k -> Recipients] : k \in 0..MaxRecipients}

\* DomainDeliveryBase.__init__(service, user, host)
Deliveries ==
    [user : {None} \cup {Some(u) : u \in UserNames}, host : {DNSNAME}]

\* SMTPDomainDelivery.protocolName and ESMTPDomainDelivery.protocolName: the
\* connections alternate between the two classes
protocolName(c) == IF c % 4 = 1 THEN <<"smtp">> ELSE <<"esmtp">>

Protocols == [magic : {Magic}, domainSpecifier : {domainSpecifier}]

\* the object an operation of connection c runs on
Self(c) ==
    IF c \in SmtpConns
    THEN [service |-> service, user |-> delivery[c].user,
          host |-> delivery[c].host, protocolName |-> protocolName(c)]
    ELSE [service |-> service, magic |-> pop[c].magic,
          domainSpecifier |-> pop[c].domainSpecifier]

\* no operation has run since the transport took the last result
Idle == [op |-> "idle"]

Init ==
    /\ service \in Services
    /\ delivery \in [SmtpConns -> Deliveries]
    /\ pop \in [PopConns -> Protocols]
    /\ awaiting = [c \in Conns |-> "nothing"]
    /\ last = Idle

\* the connection waits when the Deferred it was handed has not fired
Await(c, result, owner) ==
    awaiting' = [awaiting EXCEPT ![c] =
                    IF result.how = "deferred" /\ result.state = "pending"
                    THEN owner ELSE "nothing"]

ValidateFrom(c, helo, origin) ==
    /\ last = Idle
    /\ awaiting[c] = "nothing"
    /\ last' = [op |-> "validateFrom", conn |-> c, helo |-> helo,
                origin |-> origin,
                result |-> validateFrom(Self(c), helo, origin)]
    /\ UNCHANGED <<service, delivery, pop, awaiting>>

\* ValidateTo with the queuing fallback registering the queuer it built
ValidateTo_registers(c, user, exists) ==
    /\ last = Idle
    /\ awaiting[c] = "nothing"
    /\ LET did == validateTo(Self(c), user, exists)
       IN  /\ last' = [op |-> "validateTo", conn |-> c, user |-> user,
                       queuers |-> did.queuers,
                       existsCalls |-> did.existsCalls,
                       exists |-> IF did.existsCalls = <<>> THEN None
                                  ELSE Some(exists),
                       result |-> did.result]
           /\ Await(c, did.result, "exists")
           /\ service' = IF did.queuers = <<>> THEN service
                         ELSE [service EXCEPT !.domains =
                                  (user.dest.domain :> did.queuers[1]) @@ @]
    /\ UNCHANGED <<delivery, pop>>

ValidateTo(c, user, exists) ==
    /\ last = Idle
    /\ awaiting[c] = "nothing"
    /\ LET did == validateTo(Self(c), user, exists)
       IN  /\ last' = [op |-> "validateTo", conn |-> c, user |-> user,
                       queuers |-> did.queuers,
                       existsCalls |-> did.existsCalls,
                       exists |-> IF did.existsCalls = <<>> THEN None
                                  ELSE Some(exists),
                       result |-> did.result]
           /\ Await(c, did.result, "exists")
    /\ UNCHANGED <<service, delivery, pop>>

ReceivedHeader(c, helo, origin, recipients) ==
    /\ last = Idle
    /\ awaiting[c] = "nothing"
    /\ last' = [op |-> "receivedHeader", conn |-> c, helo |-> helo,
                recipients |-> recipients,
                result |-> receivedHeader(Self(c), helo, origin, recipients)]
    /\ UNCHANGED <<service, delivery, pop, awaiting>>

AuthenticateUserAPOP(c, user, digest, login) ==
    /\ last = Idle
    /\ awaiting[c] = "nothing"
    /\ LET did == authenticateUserAPOP(Self(c), user, digest, login)
       IN  /\ last' = [op |-> "authenticateUserAPOP", conn |-> c,
                       user |-> user, secret |-> digest,
                       found |-> did.found,
                       loginCalls |-> did.loginCalls,
                       login |-> IF did.loginCalls = <<>> THEN None
                                 ELSE Some(login),
                       result |-> did.result]
           /\ Await(c, did.result, "login")
    /\ UNCHANGED <<service, delivery, pop>>

AuthenticateUserPASS(c, user, password, login) ==
    /\ last = Idle
    /\ awaiting[c] = "nothing"
    /\ LET did == authenticateUserPASS(Self(c), user, password, login)
       IN  /\ last' = [op |-> "authenticateUserPASS", conn |-> c,
                       user |-> user, secret |-> password,
                       found |-> did.found,
                       loginCalls |-> did.loginCalls,
                       login |-> IF did.loginCalls = <<>> THEN None
                                 ELSE Some(login),
                       result |-> did.result]
           /\ Await(c, did.result, "login")
    /\ UNCHANGED <<service, delivery, pop>>

\* the handler's Deferred fires: the caller of validateTo holds that Deferred
ExistsFires(c, produced) ==
    /\ last = Idle
    /\ awaiting[c] = "exists"
    /\ last' = [op |-> "validateTo fired", conn |-> c, produced |-> produced,
                result |-> fire(waiting("exists"), produced)]
    /\ awaiting' = [awaiting EXCEPT ![c] = "nothing"]
    /\ UNCHANGED <<service, delivery, pop>>

\* the portal's Deferred fires: the caller of the login operation holds it
LoginFires(c, produced) ==
    /\ last = Idle
    /\ awaiting[c] = "login"
    /\ last' = [op |-> "login fired", conn |-> c, produced |-> produced,
                result |-> fire(waiting("login"), produced)]
    /\ awaiting' = [awaiting EXCEPT ![c] = "nothing"]
    /\ UNCHANGED <<service, delivery, pop>>

\* the transport takes the result of the operation that ran, to encode its reply
Reply ==
    /\ last # Idle
    /\ last' = Idle
    /\ UNCHANGED <<service, delivery, pop, awaiting>>

Next ==
    \/ \E c \in SmtpConns, helo \in Helos, origin \in Origins :
          ValidateFrom(c, helo, origin)
    \/ \E c \in SmtpConns, user \in Users, exists \in ExistsBehaviours :
          ValidateTo(c, user, exists)
    \/ \E c \in SmtpConns, helo \in HeloIdentities, origin \in Origins,
          recipients \in RecipientLists :
          ReceivedHeader(c, helo, origin, recipients)
    \/ \E c \in PopConns, user \in LoginIds, digest \in Secrets,
          login \in LoginBehaviours :
          AuthenticateUserAPOP(c, user, digest, login)
    \/ \E c \in PopConns, user \in LoginIds, password \in Secrets,
          login \in LoginBehaviours :
          AuthenticateUserPASS(c, user, password, login)
    \/ \E c \in SmtpConns, produced \in ExistsOutcomes : ExistsFires(c, produced)
    \/ \E c \in PopConns, produced \in LoginOutcomes : LoginFires(c, produced)
    \/ Reply

Spec == Init /\ [][Next]_vars

\* ------------------------------------------------------------- claims
\* what the claims say of an operation, stated apart from the operators above
Registered(domain) == domain \in DOMAIN service.domains

QueuingEnabled == service.queue # None

IsLogin == last.op \in {"authenticateUserAPOP", "authenticateUserPASS"}

\* identifier id reads as local part u and domain d: u ends at the first
\* separator, or there is no separator and d is empty
SplitsAs(id, u, d) ==
    \/ /\ u \o <<domainSpecifier>> \o d = id
       /\ \A i \in 1..Len(u) : u[i] # domainSpecifier
    \/ /\ \A i \in 1..Len(id) : id[i] # domainSpecifier
       /\ u = id
       /\ d = <<>>

Parts == Strs(IdChars, MaxIdLen)

HasSegment(header, text) == \E i \in 1..Len(header) : header[i] = text

C2_Original ==
    (/\ last.op = "validateTo"
     /\ delivery[last.conn].user # None
     /\ QueuingEnabled
     /\ ~Registered(last.user.dest.domain))
    => /\ last.queuers = <<DomainQueuer(service, TRUE)>>
       /\ last.existsCalls =
             <<[handler |-> DomainQueuer(service, TRUE), user |-> last.user]>>
       /\ last.result.how # "raise"

\* C2 as amended: the same, for a context whose authenticated user is set
\* and not the empty string.
C2_QueuingFallback ==
    (/\ last.op = "validateTo"
     /\ Truthy(delivery[last.conn].user)
     /\ QueuingEnabled
     /\ ~Registered(last.user.dest.domain))
    => /\ last.queuers = <<DomainQueuer(service, TRUE)>>
       /\ last.existsCalls =
             <<[handler |-> DomainQueuer(service, TRUE), user |-> last.user]>>
       /\ last.result.how # "raise"

C2_Witness ==
    /\ last.op = "validateTo"
    /\ Truthy(delivery[last.conn].user)
    /\ QueuingEnabled
    /\ ~Registered(last.user.dest.domain)
    /\ Len(last.existsCalls) = 1
    /\ last.existsCalls[1].handler.kind = "DomainQueuer"

\* C3 as stated: for a login identifier whose domain part is not served,
\* authenticateUserPASS and authenticateUserAPOP return a Deferred that has
\* failed with UnauthorizedLogin, carry no 'no such domain' detail, and call
\* no portal's login.
C3_UnservedDomainUnauthorized ==
    IsLogin =>
        \A u \in Parts, d \in Parts :
            (SplitsAs(last.user, u, d) /\ ~Registered(d))
            => /\ last.result = fail(UnauthorizedLogin)
               /\ last.loginCalls = <<>>

\* C4: validateFrom rejects with SMTPBadSender 503 when helo is absent,
\* whatever the origin; otherwise with SMTPBadSender 501 when the origin has
\* a local part and no domain; otherwise it returns the origin it was given.
C4_ValidateFromOrder ==
    last.op = "validateFrom" =>
        IF last.helo = None
        THEN /\ last.result.how = "raise"
             /\ last.result.val.type = "SMTPBadSender"
             /\ last.result.val.code = 503
        ELSE IF last.origin.local # <<>> /\ last.origin.domain = <<>>
        THEN /\ last.result.how = "raise"
             /\ last.result.val.type = "SMTPBadSender"
             /\ last.result.val.code = 501
        ELSE /\ last.result.how = "return"
             /\ last.result.val = last.origin

C4_Witness ==
    /\ last.op = "validateFrom"
    /\ last.helo = None
    /\ last.origin.local # <<>>
    /\ last.origin.domain = <<>>
    /\ last.result.how = "raise"

\* C5 as stated: the header receivedHeader builds holds the ' auth=' segment
\* exactly when the context's authenticated user is set rather than absent.
C5_Original ==
    last.op = "receivedHeader" =>
        (HasSegment(last.result.val, " auth=")
            <=> delivery[last.conn].user # None)

\* C5 as amended: the header holds the ' auth=' segment exactly when the
\* context's authenticated user is set and not the empty string, for every
\* helo identity and recipient list.
C5_AuthSegment ==
    last.op = "receivedHeader" =>
        (HasSegment(last.result.val, " auth=")
            <=> Truthy(delivery[last.conn].user))

C5_Witness ==
    /\ last.op = "receivedHeader"
    /\ Truthy(delivery[last.conn].user)
    /\ last.helo[1] # <<>>
    /\ last.recipients # <<>>
    /\ HasSegment(last.result.val, " auth=")

\* the credentials a login operation is to build for local part u
CredentialsFor(op, c, u, secret) ==
    IF op = "authenticateUserAPOP"
    THEN APOPCredentials(pop[c].magic, u, secret)
    ELSE UsernamePassword(u, secret)

\* C6: when the identifier's domain has a portal bound, authenticateUserPASS
\* and authenticateUserAPOP call that domain's portal, and no other, once,
\* with credentials whose identity is the local part (not the identifier,
\* whenever the identifier holds a separator), asking for pop3.IMailbox; the
\* Deferred they return is the one the portal returned, and it fires with
\* what the portal produces.
C6_LoginRouted ==
    /\ IsLogin =>
          \A u \in Parts, d \in Parts :
              (SplitsAs(last.user, u, d) /\ d \in DOMAIN service.portals)
              => /\ last.loginCalls =
                       <<[portal |-> service.portals[d],
                          credentials |->
                              CredentialsFor(last.op, last.conn, u, last.secret),
                          mind |-> None,
                          interface |-> "pop3.IMailbox"]>>
                 /\ (\E i \in 1..Len(last.user) :
                        last.user[i] = domainSpecifier)
                    => last.loginCalls[1].credentials.username # last.user
                 /\ last.login # None
                 /\ last.result = The(last.login)
    /\ last.op = "login fired" => last.result = last.produced

C6_Witness ==
    /\ last.op = "authenticateUserPASS"
    /\ Len(last.loginCalls) = 1
    /\ last.loginCalls[1].credentials.username # last.user
    /\ last.loginCalls[1].credentials.username # <<>>
    /\ last.result.state = "fail"

\* C7: lookupDomain splits the identifier at the first separator only: when
\* the domain it reads is registered it returns the bytes before the first
\* separator and all the bytes after it, later separators included; an
\* identifier with no separator gives (identifier, empty domain) when the
\* empty-string domain is registered.
C7_SplitAtFirst ==
    IsLogin =>
        \A u \in Parts, d \in Parts :
            (SplitsAs(last.user, u, d) /\ Registered(d))
            => last.found = Return([user |-> u, domain |-> d])

C7_Witness ==
    /\ IsLogin
    /\ last.found.how = "return"
    /\ \E i \in 1..Len(last.found.val.domain) :
          last.found.val.domain[i] = domainSpecifier

\* C8: when the destination's domain is registered, validateTo binds the
\* handler registered for it, whatever the authenticated user and the queuing
\* flag are, and constructs no queuing handler.
C8_RegisteredHandler ==
    (last.op = "validateTo" /\ Registered(last.user.dest.domain))
    => /\ last.existsCalls =
             <<[handler |-> service.domains[last.user.dest.domain],
                user |-> last.user]>>
       /\ last.queuers = <<>>

C8_Witness ==
    /\ last.op = "validateTo"
    /\ Registered(last.user.dest.domain)
    /\ Truthy(delivery[last.conn].user)
    /\ QueuingEnabled
    /\ Len(last.existsCalls) = 1

\* C9 as stated: once validateTo has bound a handler it calls that handler's
\* exists once, with the destination, and returns a Deferred: a positive
\* result of exists yields the message factory, and every failing result,
\* raised or fired, surfaces as a failure of kind SMTPBadRcpt (the spec's
\* RecipientRejected) instead of being raised out of validateTo.
C9_Original ==
    /\ (last.op = "validateTo" /\ last.exists # None)
       => /\ Len(last.existsCalls) = 1
          /\ last.existsCalls[1].user = last.user
          /\ last.result.how = "deferred"
          /\ LET did == The(last.exists)
             IN  /\ did.how = "return" => last.result = succeed(MessageFactory)
                 /\ (did.how = "raise"
                        \/ (did.how = "deferred" /\ did.state = "fail"))
                    => /\ last.result.state = "fail"
                       /\ last.result.val.type = "SMTPBadRcpt"
    /\ (last.op = "validateTo fired" /\ last.produced.state = "fail")
       => /\ last.result.state = "fail"
          /\ last.result.val.type = "SMTPBadRcpt"

\* C9 as amended: once validateTo has bound a handler it calls that handler's
\* exists once, with the destination, and returns a Deferred whose outcome is
\* the outcome of that call: the value exists returns is its result, and the
\* error exists raises or fails with, whatever its kind, is its failure; no
\* error of exists is raised out of validateTo.
C9_ExistsOutcome ==
    /\ (last.op = "validateTo" /\ last.exists # None)
       => /\ Len(last.existsCalls) = 1
          /\ last.existsCalls[1].user = last.user
          /\ last.result.how = "deferred"
          /\ LET did == The(last.exists)
             IN  /\ did.how = "return"
                    => last.result.state = "ok" /\ last.result.val = did.val
                 /\ did.how = "raise"
                    => last.result.state = "fail" /\ last.result.val = did.val
                 /\ did.how = "deferred" => last.result = did
    /\ (last.op = "validateTo" /\ last.exists = None)
       => last.existsCalls = <<>> /\ last.result.how = "raise"
    /\ last.op = "validateTo fired" => last.result = last.produced

C9_Witness ==
    /\ last.op = "validateTo"
    /\ last.exists # None
    /\ The(last.exists).how = "raise"
    /\ last.result.how = "deferred"
    /\ last.result.state = "fail"

\* the state of connection c: its object's attributes and what it waits on
ConnState(c) ==
    IF c \in SmtpConns THEN <<delivery[c], awaiting[c]>>
    ELSE <<pop[c], awaiting[c]>>

\* C10: no operation and no callback, accepted or rejected, on any
\* connection changes the shared service (its domains, its portals, its
\* queue), the attributes of any connection's object, or what another
\* connection waits on; the queuing fallback registers nothing.
C10_ServiceAndOthersUnchanged ==
    [][/\ service' = service
       /\ delivery' = delivery
       /\ pop' = pop
       /\ \A c \in Conns :
             (last'.op = "idle" \/ last'.conn # c)
             => ConnState(c)' = ConnState(c)]_vars

C10_Witness ==
    /\ last.op = "validateTo"
    /\ last.queuers # <<>>
    /\ ~Registered(last.user.dest.domain)
    /\ \E c \in Conns : c # last.conn /\ awaiting[c] # "nothing"

====
